---------------------------- MODULE Spec2Model ----------------------------
(***************************************************************************)
(* A model of the two cores of the repository:                             *)
(*   - src/btree.c      the B-tree index of fixed order ORDER              *)
(*   - src/mapreduce.c  the threaded MapReduce engine                      *)
(*                                                                         *)
(* B-tree nodes are records.  A node's key/value array is modelled by the  *)
(* sequence of its occupied slots [0, num_keys) and an internal node's     *)
(* child array by the sequence of its slots [0, num_keys]: the code never  *)
(* reads a slot outside these ranges, and writes a slot before it raises   *)
(* num_keys over it.  Indices passed between operators are the 0-based     *)
(* indices of the C code; K(node, i) and Ch(node, i) do the shift.         *)
(* A payload (value.data) is a heap handle [k, g]; the heap is the set     *)
(* `live` of handles that were malloc'ed and not yet free'd.               *)
(***************************************************************************)
EXTENDS Integers, Sequences, FiniteSets, Bags, TLC

VARIABLES
    root,       \* tree->root: a node, or NULL
    destroyed,  \* btree_destroy(tree) has run
    live,       \* the heap: payload handles allocated and not yet released
    badFree,    \* some free() was given a handle that was not live
    caller,     \* the class of caller: "any", "nodup" or "matched"
    expected,   \* per key: the handle of its latest insert, NULL once deleted
                \* (recorded by the "nodup" caller)
    net,        \* per key: inserts minus deletes issued
                \* (recorded by the "matched" caller)
    dups,       \* the number of inserts of a key that search would have found
    last,       \* the last public operation: [op, key, ret, rebalanced]
                \* (recorded by the "any" caller)
    fuel,       \* operations the caller may still issue, Unlimited if any number
    script,     \* keys a scripted caller still has to insert
    \* src/mapreduce.c: the MapReduceContext ctx and the threads of a job
    input,        \* ctx.input: the list of (key, value) pairs
    output,       \* ctx.output
    partitions,   \* ctx.partitions[p].kvs, p in 0..PARTITIONS-1
    num_threads,  \* ctx.num_threads
    tsd,          \* what pthread_getspecific(0) returns in a worker
    cpc,          \* where the thread that called run_mapreduce stands
    ci,           \* its loop index i
    ret,          \* the value run_mapreduce returned, once cpc = "returned"
    wpc,          \* per worker: where it stands
    wctx,         \* per worker: the pointer it holds in its local ctx
    wi,           \* per worker: the index i (map) or p (reduce) of its loop
    wj,           \* per worker: the index i into the partition it reduces
    wk,           \* per worker: the index k into its list reduce_output
    waiting,      \* the threads blocked in pthread_barrier_wait on
                  \* ctx.phase_barrier
    crashed,      \* the process was killed by a signal
    file,         \* the lines of the input file that main() loads
    req,          \* the num_threads argument main() passes to init_mapreduce
    mutex,        \* ctx.partitions[p].mutex: the thread that holds it, or Free
    output_mutex, \* ctx.output_mutex: the thread that holds it, or Free
    wout,         \* per worker: its list map_output, or reduce_output
    olds,         \* the static pointer strtok keeps between calls: NULL, or
                  \* [item, off] for the byte at offset off of the value of
                  \* input item `item`
    arrivals,     \* per thread: its arrivals at ctx.phase_barrier
    emitted,      \* the pairs the map calls have added to their output lists
    reduced,      \* the calls of reduce_function made: [key, values]
    appended,     \* per pair of ctx.output: the call of reduce_function that
                  \* emitted it, as its index in reduced, and the pair's index
                  \* k in that call's reduce_output
    sortedParts        \* the partitions as the coordinator's sort left them,
                  \* NULL before the sort is over

bvars == <<root, destroyed, live, badFree, caller, expected, net, dups, last, fuel,
          script>>

\* the context, the coordinator, the workers, and the record of the run
ctxvars == <<input, output, partitions, num_threads, mutex, output_mutex, output_mutex>>

mainvars == <<cpc, ci, ret>>

workvars == <<wpc, wctx, wi, wj, wk, wk, wout>>

logvars == <<arrivals, emitted, reduced, appended, sortedParts>>

mvars == <<ctxvars, mainvars, workvars, logvars, tsd, waiting, crashed, file, req,
          olds>>

vars == <<bvars, mvars>>

---------------------------------------------------------------------------
(* Program constants and bounds *)

ORDER == 5

\* tree->min_degree: the ceiling of ORDER / 2
min_degree == ORDER \div 2 + (IF ORDER % 2 = 0 THEN 0 ELSE 1)

MaxKey == 2

HeapCells == 5

MaxDup == 3

DeepLen == 18

MaxDeepOps == 2

Unlimited == 0 - 1

NULL == [null |-> TRUE]

Keys == 1..MaxKey

B1Keys == <<10, 20, 5, 6, 12, 30, 7, 17>>

MAX_THREADS == 16

MAX_KEY_LENGTH == 128

MAX_VALUE_LENGTH == 1024

PARTITIONS == 16

\* the largest num_threads a job is started with
MaxW == 3

\* the largest number of input lines
MaxInput == 2

\* how far outside 1..MAX_THREADS main() may ask for a number of threads
MaxExcess == 1

\* the largest number of lines of a file of one-word lines
MaxItems == 5

\* the largest length of a key that a map call emits
MaxKeyLen == 2

\* the owner of a mutex that no thread holds
Free == 0 - 2

---------------------------------------------------------------------------
(* Nodes *)

num_keys(node) == Len(node.keys)

K(node, i) == node.keys[i + 1]

Ch(node, i) == node.children[i + 1]

\* spare tells of each slot of children[] above the node's children, in
\* order, whether it holds a pointer (TRUE) or NULL (FALSE)
btree_create_node(is_leaf) ==
    [is_leaf |-> is_leaf, keys |-> <<>>, children |-> <<>>,
     spare |-> [i \in 1..ORDER |-> FALSE]]

\* The spare slots after the first k of them were written with children
Taken(spare, k) == SubSeq(spare, k + 1, Len(spare))

InsertAt(s, i, e) == SubSeq(s, 1, i) \o <<e>> \o SubSeq(s, i + 1, Len(s))

RemoveAt(s, i) == SubSeq(s, 1, i) \o SubSeq(s, i + 2, Len(s))

\* while (i < node->num_keys && key > node->keys[i].key) i++;
RECURSIVE ScanUp(_, _, _)
ScanUp(node, key, i) ==
    IF i < num_keys(node) /\ key > K(node, i).key
    THEN ScanUp(node, key, i + 1)
    ELSE i

\* while (i >= 0 && key < node->keys[i].key) i--;
RECURSIVE ScanDown(_, _, _)
ScanDown(node, key, i) ==
    IF i >= 0 /\ key < K(node, i).key
    THEN ScanDown(node, key, i - 1)
    ELSE i

---------------------------------------------------------------------------
(* Search *)

RECURSIVE btree_search_node(_, _)
btree_search_node(node, key) ==
    LET i == ScanUp(node, key, 0) IN
    IF i < num_keys(node) /\ key = K(node, i).key
    THEN [data |-> K(node, i).data]
    ELSE IF node.is_leaf THEN NULL
    ELSE btree_search_node(Ch(node, i), key)

btree_search(r, key) ==
    IF r = NULL THEN NULL ELSE btree_search_node(r, key)

---------------------------------------------------------------------------
(* Insert *)

\* btree_split_child with the new sibling created as a leaf whatever the
\* child is
btree_split_child_leaf_sibling(parent, index) ==
    LET child == Ch(parent, index)
        new_n == ORDER \div 2 - 1
        new_child ==
            [is_leaf  |-> TRUE,
             keys     |-> [j \in 1..new_n |-> child.keys[j + ORDER \div 2]],
             children |-> <<>>,
             spare    |-> btree_create_node(TRUE).spare]
        left ==
            [is_leaf  |-> child.is_leaf,
             keys     |-> SubSeq(child.keys, 1, ORDER \div 2 - 1),
             children |-> IF child.is_leaf THEN <<>>
                          ELSE SubSeq(child.children, 1, ORDER \div 2),
             spare    |-> IF child.is_leaf THEN child.spare
                          ELSE [j \in 1..(Len(child.children) - ORDER \div 2) |->
                                    j > ORDER \div 2] \o child.spare]
    IN  [parent EXCEPT
            !.keys = InsertAt(parent.keys, index, child.keys[ORDER \div 2]),
            !.children = InsertAt([parent.children EXCEPT ![index + 1] = left],
                                  index + 1, new_child),
            !.spare = Taken(parent.spare, 1)]

btree_split_child(parent, index) ==
    LET child == Ch(parent, index)
        new_n == ORDER \div 2 - 1
        new_child ==
            [is_leaf  |-> child.is_leaf,
             keys     |-> [j \in 1..new_n |-> child.keys[j + ORDER \div 2]],
             children |-> IF child.is_leaf THEN <<>>
                          ELSE [j \in 1..(ORDER \div 2) |->
                                    child.children[j + ORDER \div 2]],
             spare    |-> IF child.is_leaf THEN child.spare
                          ELSE Taken(btree_create_node(FALSE).spare,
                                     ORDER \div 2)]
        left ==
            [is_leaf  |-> child.is_leaf,
             keys     |-> SubSeq(child.keys, 1, ORDER \div 2 - 1),
             children |-> IF child.is_leaf THEN <<>>
                          ELSE SubSeq(child.children, 1, ORDER \div 2),
             spare    |-> IF child.is_leaf THEN child.spare
                          ELSE [j \in 1..(Len(child.children) - ORDER \div 2) |->
                                    j > ORDER \div 2] \o child.spare]
    IN  [parent EXCEPT
            !.keys = InsertAt(parent.keys, index, child.keys[ORDER \div 2]),
            !.children = InsertAt([parent.children EXCEPT ![index + 1] = left],
                                  index + 1, new_child),
            !.spare = Taken(parent.spare, 1)]

\* One entry of the trace of an operation: the function that ran and the node
\* it ran on.  For btree_insert_non_full and btree_delete_from_node the node
\* is the one the call was entered on, as it was at entry; for
\* btree_split_child it is the parent after the split, for btree_fill_child
\* the child after the borrow or merge, and for btree_merge_children the child
\* after the merge.
Called(fn, node) == [call |-> fn, node |-> node]

\* What a call returns that made the calls `events` and then recursed into
\* children[c] of node, when the recursive call returned r
InsertedBelow(node, c, events, r) ==
    [node  |-> [node EXCEPT !.children[c + 1] = r.node],
     trace |-> events \o r.trace]

\* Returns [node, trace]: the node after the insertion and the calls made.
RECURSIVE btree_insert_non_full(_, _, _)
btree_insert_non_full(node, key, h) ==
    LET i == ScanDown(node, key, num_keys(node) - 1)
        entry == Called("btree_insert_non_full", node)
    IN
    IF node.is_leaf
    THEN [node  |-> [node EXCEPT !.keys = InsertAt(node.keys, i + 1,
                                                   [key |-> key, data |-> h])],
          trace |-> <<entry>>]
    ELSE LET c == i + 1
             full == num_keys(Ch(node, c)) = ORDER - 1
             node1 == IF full THEN btree_split_child(node, c) ELSE node
             c1 == IF full /\ key > K(node1, c).key THEN c + 1 ELSE c
         IN  InsertedBelow(node1, c1,
                           <<entry>> \o (IF full
                                         THEN <<Called("btree_split_child", node1)>>
                                         ELSE <<>>),
                           btree_insert_non_full(Ch(node1, c1), key, h))

\* tree->root = d.node
NewRoot(d) == [root |-> d.node, trace |-> d.trace]

\* btree_insert without the split of a full root
btree_insert_no_root_split(r, key, h) ==
    IF r = NULL
    THEN [root  |-> [btree_create_node(TRUE) EXCEPT
                        !.keys = <<[key |-> key, data |-> h]>>],
          trace |-> <<>>]
    ELSE NewRoot(btree_insert_non_full(r, key, h))

\* Returns [root, trace].
btree_insert(r, key, h) ==
    IF r = NULL
    THEN [root  |-> [btree_create_node(TRUE) EXCEPT
                        !.keys = <<[key |-> key, data |-> h]>>],
          trace |-> <<>>]
    ELSE IF num_keys(r) = ORDER - 1
    THEN LET new_root == btree_split_child(
                    [btree_create_node(FALSE) EXCEPT
                        !.children = <<r>>, !.spare = Taken(@, 1)], 0)
             i == IF K(new_root, 0).key < key THEN 1 ELSE 0
         IN  NewRoot(InsertedBelow(new_root, i,
                                   <<Called("btree_split_child", new_root)>>,
                                   btree_insert_non_full(Ch(new_root, i), key, h)))
    ELSE NewRoot(btree_insert_non_full(r, key, h))

---------------------------------------------------------------------------
(* Delete *)

RECURSIVE btree_get_predecessor_from(_)
btree_get_predecessor_from(cur) ==
    IF cur.is_leaf THEN K(cur, num_keys(cur) - 1).key
    ELSE btree_get_predecessor_from(Ch(cur, num_keys(cur)))

btree_get_predecessor(node, idx) == btree_get_predecessor_from(Ch(node, idx))

RECURSIVE btree_get_successor_from(_)
btree_get_successor_from(cur) ==
    IF cur.is_leaf THEN K(cur, 0).key
    ELSE btree_get_successor_from(Ch(cur, 0))

btree_get_successor(node, idx) == btree_get_successor_from(Ch(node, idx + 1))

btree_borrow_from_prev(node, idx) ==
    LET child == Ch(node, idx)
        sibling == Ch(node, idx - 1)
        sn == num_keys(sibling)
        child1 ==
            [child EXCEPT
                !.keys = <<K(node, idx - 1)>> \o child.keys,
                !.children = IF child.is_leaf THEN <<>>
                             ELSE <<Ch(sibling, sn)>> \o child.children,
                !.spare = IF child.is_leaf THEN @ ELSE Taken(@, 1)]
        sibling1 ==
            [sibling EXCEPT
                !.keys = SubSeq(sibling.keys, 1, sn - 1),
                !.children = IF child.is_leaf THEN sibling.children
                             ELSE SubSeq(sibling.children, 1, sn),
                !.spare = IF child.is_leaf THEN @ ELSE <<FALSE>> \o @]
    IN  [node EXCEPT !.keys[idx] = K(sibling, sn - 1),
                     !.children[idx] = sibling1,
                     !.children[idx + 1] = child1]

\* btree_borrow_from_next without the move of the sibling's first key into
\* the parent
btree_borrow_from_next_keeps_separator(node, idx) ==
    LET child == Ch(node, idx)
        sibling == Ch(node, idx + 1)
        child1 ==
            [child EXCEPT
                !.keys = child.keys \o <<K(node, idx)>>,
                !.children = IF child.is_leaf THEN <<>>
                             ELSE child.children \o <<Ch(sibling, 0)>>,
                !.spare = IF child.is_leaf THEN @ ELSE Taken(@, 1)]
        sibling1 ==
            [sibling EXCEPT
                !.keys = Tail(sibling.keys),
                !.children = IF sibling.is_leaf THEN sibling.children
                             ELSE Tail(sibling.children),
                !.spare = IF sibling.is_leaf THEN @ ELSE <<FALSE>> \o @]
    IN  [node EXCEPT !.children[idx + 1] = child1,
                     !.children[idx + 2] = sibling1]

btree_borrow_from_next(node, idx) ==
    LET child == Ch(node, idx)
        sibling == Ch(node, idx + 1)
        child1 ==
            [child EXCEPT
                !.keys = child.keys \o <<K(node, idx)>>,
                !.children = IF child.is_leaf THEN <<>>
                             ELSE child.children \o <<Ch(sibling, 0)>>,
                !.spare = IF child.is_leaf THEN @ ELSE Taken(@, 1)]
        sibling1 ==
            [sibling EXCEPT
                !.keys = Tail(sibling.keys),
                !.children = IF sibling.is_leaf THEN sibling.children
                             ELSE Tail(sibling.children),
                !.spare = IF sibling.is_leaf THEN @ ELSE <<FALSE>> \o @]
    IN  [node EXCEPT !.keys[idx + 1] = K(sibling, 0),
                     !.children[idx + 1] = child1,
                     !.children[idx + 2] = sibling1]

\* btree_merge_children without the copy of the parent's key into the child
btree_merge_children_no_separator(node, idx) ==
    LET child == Ch(node, idx)
        sibling == Ch(node, idx + 1)
        child1 ==
            [child EXCEPT
                !.keys = child.keys \o sibling.keys,
                !.children = IF child.is_leaf THEN <<>>
                             ELSE child.children \o sibling.children,
                !.spare = IF child.is_leaf THEN @
                          ELSE Taken(@, Len(sibling.children))]
    IN  [node EXCEPT
            !.keys = RemoveAt(node.keys, idx),
            !.children = RemoveAt([node.children EXCEPT ![idx + 1] = child1],
                                  idx + 1),
            !.spare = <<TRUE>> \o @]

btree_merge_children(node, idx) ==
    LET child == Ch(node, idx)
        sibling == Ch(node, idx + 1)
        child1 ==
            [child EXCEPT
                !.keys = child.keys \o <<K(node, idx)>> \o sibling.keys,
                !.children = IF child.is_leaf THEN <<>>
                             ELSE child.children \o sibling.children,
                !.spare = IF child.is_leaf THEN @
                          ELSE Taken(@, Len(sibling.children))]
    IN  [node EXCEPT
            !.keys = RemoveAt(node.keys, idx),
            !.children = RemoveAt([node.children EXCEPT ![idx + 1] = child1],
                                  idx + 1),
            !.spare = <<TRUE>> \o @]

\* btree_fill_child that merges whatever the siblings hold
btree_fill_child_always_merges(node, idx) ==
    IF idx = num_keys(node)
    THEN btree_merge_children(node, idx - 1)
    ELSE btree_merge_children(node, idx)

btree_fill_child(node, idx) ==
    IF idx # 0 /\ num_keys(Ch(node, idx - 1)) >= ORDER \div 2
    THEN btree_borrow_from_prev(node, idx)
    ELSE IF idx # num_keys(node) /\ num_keys(Ch(node, idx + 1)) >= ORDER \div 2
    THEN btree_borrow_from_next(node, idx)
    ELSE IF idx = num_keys(node)
    THEN btree_merge_children(node, idx - 1)
    ELSE btree_merge_children(node, idx)

\* btree_remove_from_leaf without the shift and the num_keys decrement
btree_remove_from_leaf_no_shift(node, idx) ==
    [node  |-> node,
     freed |-> <<K(node, idx).data>>,
     rebalanced |-> FALSE,
     trace |-> <<>>]

\* free(node->keys[idx].value.data), shift the later slots one place back
btree_remove_from_leaf(node, idx) ==
    [node  |-> [node EXCEPT !.keys = RemoveAt(node.keys, idx)],
     freed |-> <<K(node, idx).data>>,
     rebalanced |-> FALSE,
     trace |-> <<>>]

\* What a call returns that freed the handles `freed`, made the calls
\* `events` and then recursed into children[c] of node, when the recursive call
\* returned r
DeletedBelow(node, c, freed, rebalanced, events, r) ==
    [node       |-> [node EXCEPT !.children[c + 1] = r.node],
     result     |-> r.result,
     freed      |-> freed \o r.freed,
     rebalanced |-> rebalanced \/ r.rebalanced,
     trace      |-> events \o r.trace]

\* return true, after btree_remove_from_leaf or btree_remove_from_non_leaf
\* returned r
Removed(r) ==
    [node |-> r.node, result |-> TRUE, freed |-> r.freed,
     rebalanced |-> r.rebalanced, trace |-> r.trace]

RECURSIVE btree_delete_from_node(_, _)
RECURSIVE btree_remove_from_non_leaf(_, _)

\* Returns [node, freed, rebalanced, trace], and the result of its recursive
\* call: the node after the removal, the handles passed to free() in order,
\* whether a borrow or a merge ran, and the calls made.
btree_remove_from_non_leaf(node, idx) ==
    LET key == K(node, idx).key
        lc == Ch(node, idx)
        rc == Ch(node, idx + 1)
    IN
    IF num_keys(lc) >= ORDER \div 2
    THEN LET pred == btree_get_predecessor(node, idx)
             ln == num_keys(lc)
             slot == [key |-> pred, data |-> K(lc, ln - 1).data]
             lc1 == [lc EXCEPT !.keys[ln].data = NULL]
         IN  DeletedBelow([node EXCEPT !.keys[idx + 1] = slot], idx,
                          <<K(node, idx).data>>, FALSE,
                          <<Called("btree_delete_from_node", lc1)>>,
                          btree_delete_from_node(lc1, pred))
    ELSE IF num_keys(rc) >= ORDER \div 2
    THEN LET succ == btree_get_successor(node, idx)
             slot == [key |-> succ, data |-> K(rc, 0).data]
             rc1 == [rc EXCEPT !.keys[1].data = NULL]
         IN  DeletedBelow([node EXCEPT !.keys[idx + 1] = slot], idx + 1,
                          <<K(node, idx).data>>, FALSE,
                          <<Called("btree_delete_from_node", rc1)>>,
                          btree_delete_from_node(rc1, succ))
    ELSE LET m == btree_merge_children(node, idx)
         IN  DeletedBelow(m, idx, <<>>, TRUE,
                          <<Called("btree_merge_children", Ch(m, idx)),
                            Called("btree_delete_from_node", Ch(m, idx))>>,
                          btree_delete_from_node(Ch(m, idx), key))

\* Returns [node, result, freed, rebalanced, trace].
btree_delete_from_node(node, key) ==
    LET idx == ScanUp(node, key, 0) IN
    IF idx < num_keys(node) /\ K(node, idx).key = key
    THEN Removed(IF node.is_leaf
                 THEN btree_remove_from_leaf(node, idx)
                 ELSE btree_remove_from_non_leaf(node, idx))
    ELSE IF node.is_leaf
    THEN [node |-> node, result |-> FALSE, freed |-> <<>>, rebalanced |-> FALSE,
          trace |-> <<>>]
    ELSE LET flag == (idx = num_keys(node))
             fill == num_keys(Ch(node, idx)) < ORDER \div 2
             node1 == IF fill THEN btree_fill_child(node, idx) ELSE node
             c == IF flag /\ idx > num_keys(node1) THEN idx - 1 ELSE idx
         IN  DeletedBelow(node1, c, <<>>, fill,
                          (IF fill
                           THEN <<Called("btree_fill_child", Ch(node1, c))>>
                           ELSE <<>>)
                          \o (IF num_keys(node1) < num_keys(node)
                              THEN <<Called("btree_merge_children", Ch(node1, c))>>
                              ELSE <<>>)
                          \o <<Called("btree_delete_from_node", Ch(node1, c))>>,
                          btree_delete_from_node(Ch(node1, c), key))

\* What btree_delete returns when btree_delete_from_node returned d and the
\* root is then newroot
Deleted(d, newroot) ==
    [root |-> newroot, result |-> d.result, freed |-> d.freed,
     rebalanced |-> d.rebalanced, trace |-> d.trace]

\* The root after a delete that left it as node: its first child, or no root,
\* when it holds no key
ShrunkRoot(node) ==
    IF num_keys(node) = 0
    THEN (IF node.is_leaf THEN NULL ELSE Ch(node, 0))
    ELSE node

\* d, with the root that btree_delete leaves
WithShrunkRoot(d) == Deleted(d, ShrunkRoot(d.node))

\* d, with the root as btree_delete_from_node left it
WithSameRoot(d) == Deleted(d, d.node)

\* btree_delete without the replacement of a root left with no key
btree_delete_keeps_root(r, key) ==
    IF r = NULL
    THEN [root |-> NULL, result |-> FALSE, freed |-> <<>>, rebalanced |-> FALSE,
          trace |-> <<>>]
    ELSE WithSameRoot(btree_delete_from_node(r, key))

\* Returns [root, result, freed, rebalanced, trace].
btree_delete(r, key) ==
    IF r = NULL
    THEN [root |-> NULL, result |-> FALSE, freed |-> <<>>, rebalanced |-> FALSE,
          trace |-> <<>>]
    ELSE WithShrunkRoot(btree_delete_from_node(r, key))

---------------------------------------------------------------------------
(* Teardown and traversal *)

RECURSIVE Flatten(_)
Flatten(ss) == IF ss = <<>> THEN <<>> ELSE Head(ss) \o Flatten(Tail(ss))

\* The handles passed to free(), in order: children first, then own slots.
RECURSIVE btree_destroy_node(_)
btree_destroy_node(node) ==
    IF node = NULL THEN <<>>
    ELSE (IF node.is_leaf THEN <<>>
          ELSE Flatten([i \in 1..(num_keys(node) + 1) |->
                            btree_destroy_node(node.children[i])]))
         \o [i \in 1..num_keys(node) |-> node.keys[i].data]

\* The occupied slots in the order btree_traverse_node visits them.
RECURSIVE btree_traverse_node(_)
btree_traverse_node(node) ==
    IF node = NULL THEN <<>>
    ELSE IF node.is_leaf THEN node.keys
    ELSE Flatten([i \in 1..(2 * num_keys(node) + 1) |->
                    IF i % 2 = 1
                    THEN btree_traverse_node(node.children[(i + 1) \div 2])
                    ELSE <<node.keys[i \div 2]>>])

btree_traverse(r) == btree_traverse_node(r)

---------------------------------------------------------------------------
(* The heap of payloads *)

\* malloc(data_size) for the payload of `key`: the first free cell
RECURSIVE FirstFree(_, _, _)
FirstFree(heap, key, g) ==
    IF [k |-> key, g |-> g] \in heap
    THEN FirstFree(heap, key, g + 1)
    ELSE [k |-> key, g |-> g]

Malloc(heap, key) == FirstFree(heap, key, 1)

\* free(h) for each h of hs in turn; free(NULL) does nothing
RECURSIVE FreeAll(_, _)
FreeAll(heap, hs) ==
    IF hs = <<>> THEN [live |-> heap, bad |-> FALSE]
    ELSE LET h == Head(hs) IN
         IF h = NULL THEN FreeAll(heap, Tail(hs))
         ELSE LET r == FreeAll(heap \ {h}, Tail(hs))
              IN  [live |-> r.live, bad |-> r.bad \/ h \notin heap]

---------------------------------------------------------------------------
(* The public operations *)

\* btree_insert(tree, key, data, data_size), and what the caller records
InsertOp(key) ==
    LET h == Malloc(live, key) IN
    /\ ~destroyed
    /\ root' = btree_insert(root, key, h).root
    /\ live' = live \cup {h}
    /\ expected' = IF caller = "nodup" THEN [expected EXCEPT ![key] = h]
                   ELSE expected
    /\ net' = IF caller = "matched" THEN [net EXCEPT ![key] = @ + 1] ELSE net
    /\ dups' = IF btree_search(root, key) = NULL THEN dups ELSE dups + 1
    /\ last' = IF caller = "any"
               THEN [op |-> "insert", key |-> key, ret |-> FALSE,
                     rebalanced |-> FALSE]
               ELSE last
    /\ UNCHANGED <<destroyed, badFree, caller>>
    /\ UNCHANGED mvars

\* btree_delete(tree, key), and what the caller records
DeleteOp(key) ==
    LET d == btree_delete(root, key)
        f == FreeAll(live, d.freed)
    IN  /\ ~destroyed
        /\ root' = d.root
        /\ live' = f.live
        /\ badFree' = (badFree \/ f.bad)
        /\ expected' = IF caller = "nodup" THEN [expected EXCEPT ![key] = NULL]
                       ELSE expected
        /\ net' = IF caller = "matched" THEN [net EXCEPT ![key] = @ - 1] ELSE net
        /\ last' = IF caller = "any"
                   THEN [op |-> "delete", key |-> key, ret |-> d.result,
                         rebalanced |-> d.rebalanced]
                   ELSE last
        /\ UNCHANGED <<destroyed, dups, caller>>
        /\ UNCHANGED mvars

\* btree_destroy(tree)
DestroyOp ==
    LET f == FreeAll(live, btree_destroy_node(root))
    IN  /\ ~destroyed
        /\ live' = f.live
        /\ badFree' = (badFree \/ f.bad)
        /\ root' = NULL
        /\ destroyed' = TRUE
        /\ last' = IF caller = "any"
                   THEN [op |-> "destroy", key |-> 0, ret |-> FALSE,
                         rebalanced |-> FALSE]
                   ELSE last
        /\ UNCHANGED <<expected, net, dups, caller>>
        /\ UNCHANGED mvars

\* btree_create(): an empty tree; ks are the keys the caller will use
InitTree(ks) ==
    /\ root = NULL
    /\ destroyed = FALSE
    /\ live = {}
    /\ badFree = FALSE
    /\ expected = [k \in ks |-> NULL]
    /\ net = [k \in ks |-> 0]
    /\ dups = 0
    /\ last = [op |-> "create", key |-> 0, ret |-> FALSE, rebalanced |-> FALSE]

Ascending(n) == [i \in 1..n |-> i]

\* A context that init_mapreduce has not initialised, and no thread of a job
NoContext ==
    /\ input = <<>>
    /\ output = <<>>
    /\ partitions = [p \in 0..(PARTITIONS - 1) |-> <<>>]
    /\ num_threads = 0
    /\ tsd = NULL
    /\ ci = 0
    /\ ret = 0
    /\ wpc = <<>>
    /\ wctx = <<>>
    /\ wi = <<>>
    /\ wj = <<>>
    /\ wk = <<>>
    /\ waiting = {}
    /\ crashed = FALSE
    /\ mutex = [p \in 0..(PARTITIONS - 1) |-> Free]
    /\ output_mutex = Free
    /\ wout = <<>>
    /\ olds = NULL
    /\ arrivals = <<>>
    /\ emitted = EmptyBag
    /\ reduced = <<>>
    /\ appended = <<>>
    /\ sortedParts = NULL

\* No MapReduce job in the process
MRIdle ==
    /\ NoContext
    /\ cpc = "none"
    /\ file = <<>>
    /\ req = 0

---------------------------------------------------------------------------
(* The callers.  A run either starts on the empty tree and uses the keys  *)
(* 1..MaxKey until the heap holds HeapCells payloads, or first inserts    *)
(* 1..DeepLen in ascending order (which grows the tree to height 3) and   *)
(* then issues up to MaxDeepOps operations on those keys.                 *)
(*   "any"     inserts a stored key at most MaxDup times in a run         *)
(*   "nodup"   never inserts a key that search would find                 *)
(*   "matched" is "any", and deletes a key only after a matching insert   *)

ScriptInsert ==
    /\ script # <<>>
    /\ InsertOp(Head(script))
    /\ script' = Tail(script)
    /\ UNCHANGED fuel

\* The caller issues one more operation
Issue ==
    /\ script = <<>>
    /\ fuel # 0
    /\ fuel' = IF fuel = Unlimited THEN fuel ELSE fuel - 1
    /\ UNCHANGED script

Insert(key) ==
    /\ Issue
    /\ fuel = Unlimited => Cardinality(live) < HeapCells
    /\ \/ btree_search(root, key) = NULL
       \/ caller # "nodup" /\ dups < MaxDup
    /\ InsertOp(key)

Delete(key) ==
    /\ Issue
    /\ caller = "matched" => net[key] > 0
    /\ DeleteOp(key)

Destroy ==
    /\ Issue
    /\ DestroyOp

InitCaller(c, ks) ==
    /\ MRIdle
    /\ caller = c
    /\ \/ InitTree(ks) /\ script = <<>> /\ fuel = Unlimited
       \/ InitTree(1..DeepLen) /\ script = Ascending(DeepLen) /\ fuel = MaxDeepOps

Next ==
    \/ ScriptInsert
    \/ \E key \in DOMAIN net : Insert(key)
    \/ \E key \in DOMAIN net : Delete(key)
    \/ Destroy

Init == InitCaller("any", Keys)

Spec == Init /\ [][Next]_vars

\* The "nodup" caller has MaxDup more keys, to fill as many slots
InitNoDup == InitCaller("nodup", 1..(MaxKey + MaxDup))

SpecNoDup == InitNoDup /\ [][Next]_vars

InitMatched == InitCaller("matched", Keys)

SpecMatched == InitMatched /\ [][Next]_vars

---------------------------------------------------------------------------
(* SpecScript: a caller that inserts the keys of a script in order, the   *)
(* script being any subsequence of scenario B1's keys.  The caller counts *)
(* its inserts in net, which tells the script of a finished run.          *)

RECURSIVE SubSeqs(_)
SubSeqs(s) ==
    IF s = <<>> THEN {<<>>}
    ELSE LET rest == SubSeqs(Tail(s))
         IN  rest \cup {<<Head(s)>> \o t : t \in rest}

InitScript ==
    /\ MRIdle
    /\ caller = "matched"
    /\ InitTree({B1Keys[i] : i \in 1..Len(B1Keys)})
    /\ script \in SubSeqs(B1Keys)
    /\ fuel = 0

NextScript == ScriptInsert

SpecScript == InitScript /\ [][NextScript]_vars

---------------------------------------------------------------------------
(* src/mapreduce.c.  A string is the sequence of its chars up to the      *)
(* terminating 0, each char being the value a read of it yields: 0..255   *)
(* in a build where char is unsigned, -128..127 where it is signed.  A    *)
(* KeyValueList is the sequence of its pairs.                             *)

\* The bag of the elements of a list
RECURSIVE SeqBag(_)
SeqBag(list) ==
    IF list = <<>> THEN EmptyBag ELSE SeqBag(Tail(list)) (+) SetToBag({Head(list)})

\* strncpy into a buffer of n + 1 bytes, then the terminating 0
Trunc(str, n) == IF Len(str) <= n THEN str ELSE SubSeq(str, 1, n)

add_kv_pair(list, key, value) ==
    Append(list, [key   |-> Trunc(key, MAX_KEY_LENGTH - 1),
                  value |-> Trunc(value, MAX_VALUE_LENGTH - 1)])

\* sprintf("%d", n) for n >= 0
RECURSIVE Itoa(_)
Itoa(n) == IF n < 10 THEN <<48 + n>> ELSE Itoa(n \div 10) \o <<48 + (n % 10)>>

\* atoi of a string without sign or leading blanks: the digits it starts with
RECURSIVE AtoiFrom(_, _)
AtoiFrom(str, acc) ==
    IF str # <<>> /\ Head(str) \in 48..57
    THEN AtoiFrom(Tail(str), 10 * acc + (Head(str) - 48))
    ELSE acc

atoi(str) == AtoiFrom(str, 0)

tolower(c) == IF c \in 65..90 THEN c + 32 ELSE c

\* " \t\n\r\f,.:;?!\"'()[]{}"
Delimiters == {32, 9, 10, 13, 12, 44, 46, 58, 59, 63, 33, 34, 39, 40, 41, 91, 93,
               123, 125}

\* The tokens that successive strtok calls return for one string when no
\* other call of strtok comes between them
RECURSIVE Tokens(_, _, _)
Tokens(str, word, acc) ==
    IF str = <<>>
    THEN (IF word = <<>> THEN acc ELSE Append(acc, word))
    ELSE IF Head(str) \in Delimiters
    THEN Tokens(Tail(str), <<>>, IF word = <<>> THEN acc ELSE Append(acc, word))
    ELSE Tokens(Tail(str), Append(word, Head(str)), acc)

RECURSIVE EmitWords(_, _)
EmitWords(words, out) ==
    IF words = <<>> THEN out
    ELSE LET word == Trunc(Head(words), MAX_KEY_LENGTH - 1)
             lowercase == [i \in 1..Len(word) |-> tolower(word[i])]
         IN  EmitWords(Tail(words),
                       IF Len(lowercase) > 0
                       THEN add_kv_pair(out, lowercase, <<49>>)
                       ELSE out)

\* The pairs the call adds to its output list, run on its own
word_count_map(key, value) == EmitWords(Tokens(value, <<>>, <<>>), <<>>)

RECURSIVE SumCounts(_)
SumCounts(values) ==
    IF values = <<>> THEN 0 ELSE atoi(Head(values).value) + SumCounts(Tail(values))

word_count_reduce(key, values) ==
    add_kv_pair(<<>>, key, Itoa(SumCounts(values)))

\* ctx->map_function and ctx->reduce_function of the word count job
map_function(key, value) == word_count_map(key, value)

reduce_function(key, values) == word_count_reduce(key, values)

\* An unsigned int is held as its two 16-bit halves, hi * 2^16 + lo, so that
\* no intermediate value of the arithmetic below exceeds 2^31.
UInt(hi, lo) == [hi |-> hi, lo |-> lo]

\* The int c converted to unsigned int for the addition: a negative c, which
\* is what `c = *str++` reads from a byte above 127 where char is signed,
\* becomes c + 2^32
ToUnsigned(c) == IF c < 0 THEN UInt(65535, 65536 + c) ELSE UInt(0, c)

\* hash = (hash << 5) + c, without the second term, modulo 2^32
HashStep_shift_only(hash, c) ==
    LET lo == hash.lo * 32 + ToUnsigned(c).lo
        hi == hash.hi * 32 + ToUnsigned(c).hi + (lo \div 65536)
    IN  UInt(hi % 65536, lo % 65536)

\* hash = ((hash << 5) + hash) + c, modulo 2^32
HashStep(hash, c) ==
    LET lo == hash.lo * 33 + ToUnsigned(c).lo
        hi == hash.hi * 33 + ToUnsigned(c).hi + (lo \div 65536)
    IN  UInt(hi % 65536, lo % 65536)

RECURSIVE HashFrom(_, _)
HashFrom(str, hash) ==
    IF str = <<>> THEN hash ELSE HashFrom(Tail(str), HashStep(hash, Head(str)))

hash_string(str) == HashFrom(str, UInt(0, 5381))

\* u % n for an unsigned int u
UMod(u, n) == ((u.hi % n) * (65536 % n) + (u.lo % n)) % n

\* strcmp: negative, zero or positive
RECURSIVE strcmp(_, _)
strcmp(a, b) ==
    IF a = <<>> /\ b = <<>> THEN 0
    ELSE IF a = <<>> THEN 0 - 1
    ELSE IF b = <<>> THEN 1
    ELSE IF Head(a) # Head(b) THEN Head(a) - Head(b)
    ELSE strcmp(Tail(a), Tail(b))

compare_keys(kv1, kv2) == strcmp(kv1.key, kv2.key)

\* qsort with compare_keys: the list in some order that compare_keys accepts;
\* which one, among pairs of equal keys, qsort leaves unspecified
sort_kv_list(list) ==
    {sorted \in {[i \in 1..Len(list) |-> list[perm[i]]] :
                    perm \in Permutations(1..Len(list))} :
        \A i \in 1..(Len(sorted) - 1) : compare_keys(sorted[i], sorted[i + 1]) <= 0}

(* Pointers: the coordinator's context, and the int a worker is created on *)
CtxPtr == [obj |-> "ctx"]

ThreadIdPtr(i) == [obj |-> "thread_id", id |-> i]

MainThread == 0 - 1

Workers == 0..(num_threads - 1)

\* init_mapreduce(&ctx, n, word_count_map, word_count_reduce): the context
\* it leaves, the barrier being initialised with no thread waiting
init_mapreduce(n) ==
    [num_threads |-> IF n > 0 /\ n <= MAX_THREADS THEN n ELSE MAX_THREADS,
     input       |-> <<>>,
     output      |-> <<>>,
     partitions  |-> [p \in 0..(PARTITIONS - 1) |-> <<>>],
     mutex       |-> [p \in 0..(PARTITIONS - 1) |-> Free],
     output_mutex |-> Free,
     waiting     |-> {}]

\* load_data_from_file: one pair per line, its key the line number
load_data_from_file(list, lines) ==
    list \o [i \in 1..Len(lines) |-> add_kv_pair(<<>>, Itoa(i - 1), lines[i])[1]]

\* The byte at offset k of a buffer: a buffer ends with a 0
CharAt(str, k) == IF k < Len(str) THEN str[k + 1] ELSE 0

\* The string that starts at offset k of a buffer
RECURSIVE CStr(_, _)
CStr(str, k) == IF CharAt(str, k) = 0 THEN <<>> ELSE <<CharAt(str, k)>> \o CStr(str, k + 1)

RECURSIVE SkipDelimiters(_, _)
SkipDelimiters(str, k) ==
    IF CharAt(str, k) # 0 /\ CharAt(str, k) \in Delimiters
    THEN SkipDelimiters(str, k + 1)
    ELSE k

RECURSIVE TokenEnd(_, _)
TokenEnd(str, k) ==
    IF CharAt(str, k) = 0 \/ CharAt(str, k) \in Delimiters THEN k
    ELSE TokenEnd(str, k + 1)

\* strtok(s, delimiters) for a pointer s into the value of an input item, the
\* caller having replaced a NULL s by the static pointer: the token returned,
\* the static pointer it leaves, and the input with the 0 it writes over the
\* delimiter that ends the token
strtok(s) ==
    LET str   == input[s.item + 1].value
        start == SkipDelimiters(str, s.off)
        end   == TokenEnd(str, start)
    IN  IF CharAt(str, start) = 0
        THEN [token |-> NULL,
              olds  |-> [item |-> s.item, off |-> start],
              input |-> input]
        ELSE IF CharAt(str, end) = 0
        THEN [token |-> [item |-> s.item, off |-> start],
              olds  |-> [item |-> s.item, off |-> end],
              input |-> input]
        ELSE [token |-> [item |-> s.item, off |-> start],
              olds  |-> [item |-> s.item, off |-> end + 1],
              input |-> [input EXCEPT ![s.item + 1].value[end + 1] = 0]]

\* The slice of the input that run_map_phase gives to thread_id
items_per_thread == Len(input) \div num_threads

start_index(thread_id) == thread_id * items_per_thread

\* end_index with the last thread's slice not extended to the end of the input
end_index_no_remainder(thread_id) == (thread_id + 1) * items_per_thread

end_index(thread_id) ==
    IF thread_id = num_threads - 1 THEN Len(input)
    ELSE (thread_id + 1) * items_per_thread

\* The partitions that run_reduce_phase gives to thread_id
partitions_per_thread == PARTITIONS \div num_threads

start_partition(thread_id) == thread_id * partitions_per_thread

\* end_partition with the last thread's slab not extended to PARTITIONS
end_partition_no_remainder(thread_id) == (thread_id + 1) * partitions_per_thread

end_partition(thread_id) ==
    IF thread_id = num_threads - 1 THEN PARTITIONS
    ELSE (thread_id + 1) * partitions_per_thread

\* Where a thread goes on when pthread_barrier_wait returns
AfterBarrierMain(pc) ==
    CASE pc = "b1" -> "b2"
      [] pc = "b2" -> "sort"
      [] pc = "b3" -> "b4"
      [] pc = "b4" -> "join"

AfterBarrierWorker(pc) ==
    CASE pc = "b1" -> "map"
      [] pc = "b2" -> "b3"
      [] pc = "b3" -> "reduce"
      [] pc = "b4" -> "exited"

\* pthread_barrier_wait(&ctx->phase_barrier) by thread p, the barrier being
\* initialised for num_threads + 1 threads: the last to arrive releases all.
\* A thread released into a loop starts it at the start of its share.
pthread_barrier_wait(p) ==
    /\ arrivals' = [arrivals EXCEPT ![p] = @ + 1]
    /\ IF Cardinality(waiting) + 1 = num_threads + 1
       THEN LET released == waiting \cup {p} IN
            /\ waiting' = {}
            /\ cpc' = IF MainThread \in released THEN AfterBarrierMain(cpc) ELSE cpc
            /\ ci' = IF MainThread \in released THEN 0 ELSE ci
            /\ wpc' = [w \in DOMAIN wpc |->
                           IF w \in released THEN AfterBarrierWorker(wpc[w])
                           ELSE wpc[w]]
            /\ wi' = [w \in DOMAIN wi |->
                           IF w \in released /\ wpc[w] = "b1" THEN start_index(w)
                           ELSE IF w \in released /\ wpc[w] = "b3"
                           THEN start_partition(w)
                           ELSE wi[w]]
            /\ wj' = [w \in DOMAIN wj |-> IF w \in released THEN 0 ELSE wj[w]]
            /\ UNCHANGED wk
       ELSE /\ waiting' = waiting \cup {p}
            /\ UNCHANGED <<cpc, ci, wpc, wi, wj, wk>>

(* run_mapreduce, step by step *)

\* Call without the check on the input
Call_without_input_check ==
    /\ cpc = "call"
    /\ cpc' = "spawn"
    /\ ret' = ret
    /\ ci' = 0
    /\ UNCHANGED <<ctxvars, workvars, logvars, tsd, waiting, crashed, file, req, olds>>

\* the entry check on the input
Call ==
    /\ cpc = "call"
    /\ IF Len(input) = 0
       THEN cpc' = "returned" /\ ret' = 0 - 1
       ELSE cpc' = "spawn" /\ ret' = ret
    /\ ci' = 0
    /\ UNCHANGED <<ctxvars, workvars, logvars, tsd, waiting, crashed, file, req, olds>>

\* one turn of the loop that creates the workers: malloc or pthread_create may
\* fail, and then run_mapreduce returns -1
Spawn ==
    /\ cpc = "spawn"
    /\ ci < num_threads
    /\ \E created \in BOOLEAN :
          IF created
          THEN /\ wpc' = [wpc EXCEPT ![ci] = "entry"]
               /\ ci' = ci + 1
               /\ UNCHANGED <<cpc, ret>>
          ELSE /\ cpc' = "returned"
               /\ ret' = 0 - 1
               /\ UNCHANGED <<wpc, ci>>
    /\ UNCHANGED <<ctxvars, wctx, wi, wj, wk, wout, logvars, tsd, waiting, crashed, file,
                   req, olds>>

SpawnDone ==
    /\ cpc = "spawn"
    /\ ci = num_threads
    /\ cpc' = "b1"
    /\ UNCHANGED <<ctxvars, ci, ret, workvars, logvars, tsd, waiting, crashed, file,
                   req, olds>>

\* each of its four pthread_barrier_wait(&ctx->phase_barrier)
MainBarrier ==
    /\ cpc \in {"b1", "b2", "b3", "b4"}
    /\ MainThread \notin waiting
    /\ pthread_barrier_wait(MainThread)
    /\ UNCHANGED <<ctxvars, ret, wctx, wout, emitted, reduced, appended, sortedParts,
                   tsd, crashed, file, req, olds>>

\* one turn of the loop that sorts the partitions
SortStep ==
    /\ cpc = "sort"
    /\ ci < PARTITIONS
    /\ \E list \in sort_kv_list(partitions[ci]) :
          partitions' = [partitions EXCEPT ![ci] = list]
    /\ ci' = ci + 1
    /\ UNCHANGED <<input, output, num_threads, mutex, output_mutex, cpc, ret,
                   workvars, logvars, tsd, waiting, crashed, file, req, olds>>

SortDone ==
    /\ cpc = "sort"
    /\ ci = PARTITIONS
    /\ cpc' = "b3"
    /\ sortedParts' = partitions
    /\ UNCHANGED <<ctxvars, ci, ret, workvars, arrivals, emitted, reduced, appended, tsd,
                   waiting, crashed, file, req, olds>>

\* pthread_join(ctx->threads[i]) returns once worker i has returned
Join ==
    /\ cpc = "join"
    /\ ci < num_threads
    /\ wpc[ci] = "exited"
    /\ ci' = ci + 1
    /\ UNCHANGED <<ctxvars, cpc, ret, workvars, logvars, tsd, waiting, crashed, file,
                   req, olds>>

Return ==
    /\ cpc = "join"
    /\ ci = num_threads
    /\ cpc' = "returned"
    /\ ret' = 0
    /\ UNCHANGED <<ctxvars, ci, workvars, logvars, tsd, waiting, crashed, file, req,
                   olds>>

(* worker_thread(arg), arg pointing to the int that holds the worker's id *)

\* thread_id = *(int*)arg; ctx = pthread_getspecific(0); if (!ctx) ctx = arg
WorkerEntry(w) ==
    /\ wpc[w] = "entry"
    /\ wctx' = [wctx EXCEPT ![w] = IF tsd = NULL THEN ThreadIdPtr(w) ELSE tsd]
    /\ wpc' = [wpc EXCEPT ![w] = "b1"]
    /\ UNCHANGED <<ctxvars, mainvars, wi, wj, wk, wout, logvars, tsd, waiting, crashed,
                   file, req, olds>>

\* pthread_barrier_wait(&ctx->phase_barrier) with the worker's ctx.  Through
\* a ctx that points to the 4 bytes of its thread id the access is out of
\* bounds; the process is killed, or the thread blocks for ever on what is
\* not a barrier, or it runs on over memory that is not a context and
\* returns.
WorkerBarrier(w) ==
    /\ wpc[w] \in {"b1", "b2", "b3", "b4"}
    /\ w \notin waiting
    /\ IF wctx[w] = CtxPtr
       THEN pthread_barrier_wait(w) /\ UNCHANGED crashed
       ELSE /\ \E outcome \in {"killed", "hung", "exited"} :
                  /\ crashed' = (outcome = "killed")
                  /\ wpc' = [wpc EXCEPT ![w] = IF outcome = "killed" THEN @
                                                ELSE outcome]
            /\ UNCHANGED <<cpc, ci, wi, wj, wk, waiting, arrivals>>
    /\ UNCHANGED <<ctxvars, ret, wctx, wout, emitted, reduced, appended, sortedParts,
                   tsd, file, req, olds>>

(* run_map_phase(ctx, thread_id) *)

\* the loop over the worker's share of the input: the call of map_function on
\* item i, which is word_count_map, with a new list map_output
MapCall(w) ==
    /\ wpc[w] = "map"
    /\ wi[w] < end_index(w)
    /\ wpc' = [wpc EXCEPT ![w] = "tok1"]
    /\ wout' = [wout EXCEPT ![w] = <<>>]
    /\ UNCHANGED <<ctxvars, mainvars, wctx, wi, wj, wk, logvars, tsd, waiting, crashed,
                   file, req, olds>>

\* word_count_map: a call of strtok, on value the first time and on NULL from
\* then on, and the turn of the loop on the word it returned.  The call reads
\* and writes the static pointer of strtok without a lock.
MapToken(w) ==
    /\ wpc[w] \in {"tok1", "tokn"}
    /\ LET s == IF wpc[w] = "tok1" THEN [item |-> wi[w], off |-> 0] ELSE olds
           r == strtok(s)
       IN  /\ olds' = r.olds
           /\ input' = r.input
           /\ IF r.token = NULL
              THEN /\ wpc' = [wpc EXCEPT ![w] = "part"]
                   /\ wj' = [wj EXCEPT ![w] = 0]
                   /\ UNCHANGED <<wout, emitted>>
              ELSE LET word == CStr(r.input[r.token.item + 1].value, r.token.off)
                       lowercase == [i \in 1..Len(Trunc(word, MAX_KEY_LENGTH - 1)) |->
                                        tolower(word[i])]
                       pairs == IF Len(lowercase) > 0
                                THEN add_kv_pair(<<>>, lowercase, <<49>>)
                                ELSE <<>>
                   IN  /\ wout' = [wout EXCEPT ![w] = @ \o pairs]
                       /\ emitted' = emitted (+) SeqBag(pairs)
                       /\ wpc' = [wpc EXCEPT ![w] = "tokn"]
                       /\ UNCHANGED wj
    /\ UNCHANGED <<output, partitions, num_threads, mutex, output_mutex, mainvars, wctx,
                   wi, wk, arrivals, reduced, appended, sortedParts, tsd, waiting,
                   crashed, file, req>>

\* hash_string(map_output.data[j].key) % PARTITIONS
partition_index(w) == UMod(hash_string(wout[w][wj[w] + 1].key), PARTITIONS)

\* pthread_mutex_lock(&ctx->partitions[partition_index].mutex)
PartLock(w) ==
    /\ wpc[w] = "part"
    /\ wj[w] < Len(wout[w])
    /\ mutex[partition_index(w)] = Free
    /\ mutex' = [mutex EXCEPT ![partition_index(w)] = w]
    /\ wpc' = [wpc EXCEPT ![w] = "locked"]
    /\ UNCHANGED <<input, output, partitions, num_threads, output_mutex, mainvars,
                   wctx, wi, wj, wk, wout, logvars, tsd, waiting, crashed, file, req,
                   olds>>

\* add_kv_pair(&ctx->partitions[partition_index].kvs, key, value)
PartAdd(w) ==
    /\ wpc[w] = "locked"
    /\ LET pair == wout[w][wj[w] + 1]
       IN  partitions' = [partitions EXCEPT ![partition_index(w)] =
                              add_kv_pair(@, pair.key, pair.value)]
    /\ wpc' = [wpc EXCEPT ![w] = "unlock"]
    /\ UNCHANGED <<input, output, num_threads, mutex, output_mutex, mainvars, wctx,
                   wi, wj, wk, wout, logvars, tsd, waiting, crashed, file, req, olds>>

\* pthread_mutex_unlock(&ctx->partitions[partition_index].mutex); j++
PartUnlock(w) ==
    /\ wpc[w] = "unlock"
    /\ mutex' = [mutex EXCEPT ![partition_index(w)] = Free]
    /\ wj' = [wj EXCEPT ![w] = @ + 1]
    /\ wpc' = [wpc EXCEPT ![w] = "part"]
    /\ UNCHANGED <<input, output, partitions, num_threads, output_mutex, mainvars,
                   wctx, wi, wk, wout, logvars, tsd, waiting, crashed, file, req,
                   olds>>

\* the end of the loop over map_output: free_kv_list(&map_output); i++
PartDone(w) ==
    /\ wpc[w] = "part"
    /\ wj[w] >= Len(wout[w])
    /\ wout' = [wout EXCEPT ![w] = <<>>]
    /\ wi' = [wi EXCEPT ![w] = @ + 1]
    /\ wj' = [wj EXCEPT ![w] = 0]
    /\ wpc' = [wpc EXCEPT ![w] = "map"]
    /\ UNCHANGED <<ctxvars, mainvars, wctx, wk, logvars, tsd, waiting, crashed, file, req,
                   olds>>

MapDone(w) ==
    /\ wpc[w] = "map"
    /\ wi[w] >= end_index(w)
    /\ wpc' = [wpc EXCEPT ![w] = "b2"]
    /\ UNCHANGED <<ctxvars, mainvars, wctx, wi, wj, wk, wout, logvars, tsd, waiting,
                   crashed, file, req, olds>>

(* run_reduce_phase(ctx, thread_id) *)

\* while (j < partition->size && strcmp(partition->data[j].key, current_key) == 0)
RECURSIVE GroupEnd(_, _, _)
GroupEnd(partition, current_key, j) ==
    IF j < Len(partition) /\ strcmp(partition[j + 1].key, current_key) = 0
    THEN GroupEnd(partition, current_key, j + 1)
    ELSE j

RECURSIVE AddAll(_, _)
AddAll(list, pairs) ==
    IF pairs = <<>> THEN list
    ELSE AddAll(add_kv_pair(list, Head(pairs).key, Head(pairs).value), Tail(pairs))

\* The values list that run_reduce_phase collects for the key at index i of
\* partition p
GroupValues(partition, i) ==
    AddAll(<<>>, [k \in 1..(GroupEnd(partition, partition[i + 1].key, i) - i) |->
                     [key |-> <<>>, value |-> partition[i + k].value]])

\* one turn of the loop over the keys of partition p, up to the lock: the
\* values of the key collected and reduce_function called with a new list
\* reduce_output
ReduceKey(w) ==
    /\ wpc[w] = "reduce"
    /\ wi[w] < end_partition(w)
    /\ wj[w] < Len(partitions[wi[w]])
    /\ LET partition == partitions[wi[w]]
           current_key == partition[wj[w] + 1].key
           values == GroupValues(partition, wj[w])
       IN  /\ wout' = [wout EXCEPT ![w] =
                         AddAll(<<>>, reduce_function(current_key, values))]
           /\ reduced' = Append(reduced, [key |-> current_key, values |-> values])
    /\ wpc' = [wpc EXCEPT ![w] = "out"]
    /\ UNCHANGED <<ctxvars, mainvars, wctx, wi, wj, wk, arrivals, emitted, appended,
                   sortedParts, tsd, waiting, crashed, file, req, olds>>

\* pthread_mutex_lock(&ctx->output_mutex); k = 0
OutLock(w) ==
    /\ wpc[w] = "out"
    /\ output_mutex = Free
    /\ output_mutex' = w
    /\ wk' = [wk EXCEPT ![w] = 0]
    /\ wpc' = [wpc EXCEPT ![w] = "outlocked"]
    /\ UNCHANGED <<input, output, partitions, num_threads, mutex, mainvars, wctx, wi, wj,
                   wout, logvars, tsd, waiting, crashed, file, req, olds>>

\* The call of reduce_function whose reduce_output worker w holds: the call
\* it made last, as its index in reduced
CallOf(w) ==
    CHOOSE c \in DOMAIN reduced :
        /\ reduced[c].key = partitions[wi[w]][wj[w] + 1].key
        /\ \A d \in DOMAIN reduced : reduced[d].key = reduced[c].key => d <= c

\* one turn of the loop over reduce_output:
\* add_kv_pair(&ctx->output, reduce_output.data[k].key, reduce_output.data[k].value)
OutAdd(w) ==
    /\ wpc[w] = "outlocked"
    /\ wk[w] < Len(wout[w])
    /\ LET pair == wout[w][wk[w] + 1]
       IN  output' = add_kv_pair(output, pair.key, pair.value)
    /\ appended' = Append(appended, [call |-> CallOf(w), k |-> wk[w]])
    /\ wk' = [wk EXCEPT ![w] = @ + 1]
    /\ UNCHANGED <<input, partitions, num_threads, mutex, output_mutex, mainvars, wpc,
                   wctx, wi, wj, wout, arrivals, emitted, reduced, sortedParts, tsd,
                   waiting, crashed, file, req, olds>>

\* the end of that loop: pthread_mutex_unlock(&ctx->output_mutex), the two
\* lists freed, and i = j
OutUnlock(w) ==
    /\ wpc[w] = "outlocked"
    /\ wk[w] >= Len(wout[w])
    /\ output_mutex' = Free
    /\ wout' = [wout EXCEPT ![w] = <<>>]
    /\ wj' = [wj EXCEPT ![w] =
                 GroupEnd(partitions[wi[w]], partitions[wi[w]][@ + 1].key, @)]
    /\ wpc' = [wpc EXCEPT ![w] = "reduce"]
    /\ UNCHANGED <<input, output, partitions, num_threads, mutex, mainvars, wctx, wi, wk,
                   logvars, tsd, waiting, crashed, file, req, olds>>

\* the end of partition p: on to partition p + 1
ReduceNext(w) ==
    /\ wpc[w] = "reduce"
    /\ wi[w] < end_partition(w)
    /\ wj[w] >= Len(partitions[wi[w]])
    /\ wi' = [wi EXCEPT ![w] = @ + 1]
    /\ wj' = [wj EXCEPT ![w] = 0]
    /\ UNCHANGED <<ctxvars, mainvars, wpc, wctx, wk, wout, logvars, tsd, waiting, crashed,
                   file, req, olds>>

ReduceDone(w) ==
    /\ wpc[w] = "reduce"
    /\ wi[w] >= end_partition(w)
    /\ wpc' = [wpc EXCEPT ![w] = "b4"]
    /\ UNCHANGED <<ctxvars, mainvars, wctx, wi, wj, wk, wout, logvars, tsd, waiting,
                   crashed, file, req, olds>>

(* A job: main() up to the call of run_mapreduce *)
Lines == {<<97>>, <<65, 32, 98>>, <<98, 44, 32, 98>>}

InputLines == UNION {[1..n -> Lines] : n \in 0..MaxInput}

\* The threads of a job before any worker is created
Unborn ==
    /\ ci = 0
    /\ ret = 0
    /\ wpc = [w \in Workers |-> "unborn"]
    /\ wctx = [w \in Workers |-> NULL]
    /\ wi = [w \in Workers |-> 0]
    /\ wj = [w \in Workers |-> 0]
    /\ wk = [w \in Workers |-> 0]
    /\ wout = [w \in Workers |-> <<>>]
    /\ olds = NULL
    /\ arrivals = [p \in {MainThread} \cup Workers |-> 0]
    /\ emitted = EmptyBag
    /\ reduced = <<>>
    /\ appended = <<>>
    /\ sortedParts = NULL
    /\ crashed = FALSE

\* pthread_getspecific(0) returns t in the workers
MRInitWith(t) ==
    /\ caller = "none"
    /\ InitTree({})
    /\ script = <<>>
    /\ fuel = 0
    /\ \E n \in 1..MaxW, lines \in InputLines :
          LET ctx == init_mapreduce(n) IN
          /\ req = n
          /\ file = lines
          /\ num_threads = ctx.num_threads
          /\ input = load_data_from_file(ctx.input, lines)
          /\ output = ctx.output
          /\ partitions = ctx.partitions
          /\ mutex = ctx.mutex
          /\ output_mutex = ctx.output_mutex
          /\ waiting = ctx.waiting
    /\ tsd = t
    /\ cpc = "call"
    /\ Unborn

\* No thread of the program calls pthread_setspecific
MRInit == MRInitWith(NULL)

(* A caller of init_mapreduce that asks for any number of threads, also one *)
(* outside 1..MAX_THREADS                                                   *)
Requests == (0 - MaxExcess)..(MAX_THREADS + MaxExcess)

\* Longer files, of up to MaxItems lines of one word each
LongFiles == {[i \in 1..n |-> <<97>>] : n \in 1..MaxItems}

ConfigInit ==
    /\ caller = "none"
    /\ InitTree({})
    /\ script = <<>>
    /\ fuel = 0
    /\ NoContext
    /\ cpc = "init"
    /\ file \in InputLines \cup LongFiles
    /\ req \in Requests

\* init_mapreduce(&ctx, req, word_count_map, word_count_reduce) and
\* load_data_from_file: the function returns nothing, and the caller goes on
\* to run_mapreduce
Configure ==
    /\ cpc = "init"
    /\ LET ctx == init_mapreduce(req)
           threads == 0..(ctx.num_threads - 1)
       IN  /\ num_threads' = ctx.num_threads
           /\ input' = load_data_from_file(ctx.input, file)
           /\ output' = ctx.output
           /\ partitions' = ctx.partitions
           /\ mutex' = ctx.mutex
           /\ output_mutex' = ctx.output_mutex
           /\ waiting' = ctx.waiting
           /\ wpc' = [w \in threads |-> "unborn"]
           /\ wctx' = [w \in threads |-> NULL]
           /\ wi' = [w \in threads |-> 0]
           /\ wj' = [w \in threads |-> 0]
           /\ wk' = [w \in threads |-> 0]
           /\ wout' = [w \in threads |-> <<>>]
           /\ arrivals' = [p \in {MainThread} \cup threads |-> 0]
    /\ cpc' = "call"
    /\ UNCHANGED <<ci, ret, emitted, reduced, appended, sortedParts, tsd, crashed, file,
                   req, olds>>

ConfigNext == UNCHANGED bvars /\ Configure

SpecConfig == ConfigInit /\ [][ConfigNext]_vars

(* The map phase on its own: the workers of a job in run_map_phase(ctx,     *)
(* thread_id) with the coordinator's context, the coordinator waiting at the *)
(* second barrier                                                            *)
MapPhaseInit ==
    /\ caller = "none"
    /\ InitTree({})
    /\ script = <<>>
    /\ fuel = 0
    /\ \E n \in 1..MaxW, lines \in InputLines :
          LET ctx == init_mapreduce(n) IN
          /\ Len(lines) > 0
          /\ req = n
          /\ file = lines
          /\ num_threads = ctx.num_threads
          /\ input = load_data_from_file(ctx.input, lines)
          /\ output = ctx.output
          /\ partitions = ctx.partitions
          /\ mutex = ctx.mutex
          /\ output_mutex = ctx.output_mutex
    /\ tsd = CtxPtr
    /\ cpc = "b2"
    /\ ci = 0
    /\ ret = 0
    /\ waiting = {MainThread}
    /\ arrivals = [p \in {MainThread} \cup Workers |-> IF p = MainThread THEN 2 ELSE 1]
    /\ wpc = [w \in Workers |-> "map"]
    /\ wctx = [w \in Workers |-> CtxPtr]
    /\ wi = [w \in Workers |-> start_index(w)]
    /\ wj = [w \in Workers |-> 0]
    /\ wk = [w \in Workers |-> 0]
    /\ wout = [w \in Workers |-> <<>>]
    /\ olds = NULL
    /\ emitted = EmptyBag
    /\ reduced = <<>>
    /\ appended = <<>>
    /\ sortedParts = NULL
    /\ crashed = FALSE

MapPhaseNext ==
    \/ \E w \in Workers : UNCHANGED bvars /\ MapCall(w)
    \/ \E w \in Workers : UNCHANGED bvars /\ MapToken(w)
    \/ \E w \in Workers : UNCHANGED bvars /\ PartLock(w)
    \/ \E w \in Workers : UNCHANGED bvars /\ PartAdd(w)
    \/ \E w \in Workers : UNCHANGED bvars /\ PartUnlock(w)
    \/ \E w \in Workers : UNCHANGED bvars /\ PartDone(w)
    \/ \E w \in Workers : UNCHANGED bvars /\ MapDone(w)

SpecMapPhase == MapPhaseInit /\ [][MapPhaseNext]_vars

(* The partition loop of run_map_phase on its own: one worker, with the      *)
(* coordinator's context, whose call of ctx->map_function has returned a     *)
(* map_output of two pairs.  The keys are any strings of up to MaxKeyLen     *)
(* chars of one build, bytes above 127 included.                             *)
SignedChars == {0 - 128, 0 - 1, 97}

UnsignedChars == {97, 128, 255}

Strings(chars) == UNION {[1..n -> chars] : n \in 0..MaxKeyLen}

HashKeys == Strings(SignedChars) \cup Strings(UnsignedChars)

HashInit ==
    /\ caller = "none"
    /\ InitTree({})
    /\ script = <<>>
    /\ fuel = 0
    /\ LET ctx == init_mapreduce(1) IN
          /\ req = 1
          /\ file = <<<<97>>>>
          /\ num_threads = ctx.num_threads
          /\ input = load_data_from_file(ctx.input, file)
          /\ output = ctx.output
          /\ partitions = ctx.partitions
          /\ mutex = ctx.mutex
          /\ output_mutex = ctx.output_mutex
    /\ tsd = CtxPtr
    /\ cpc = "b2"
    /\ ci = 0
    /\ ret = 0
    /\ waiting = {MainThread}
    /\ arrivals = [p \in {MainThread} \cup Workers |-> IF p = MainThread THEN 2 ELSE 1]
    /\ wpc = [w \in Workers |-> "part"]
    /\ wctx = [w \in Workers |-> CtxPtr]
    /\ wi = [w \in Workers |-> 0]
    /\ wj = [w \in Workers |-> 0]
    /\ wk = [w \in Workers |-> 0]
    /\ \E k1 \in HashKeys, k2 \in HashKeys :
          /\ wout = [w \in Workers |->
                        add_kv_pair(add_kv_pair(<<>>, k1, <<49>>), k2, <<49>>)]
          /\ emitted = SeqBag(wout[0])
    /\ olds = NULL
    /\ reduced = <<>>
    /\ appended = <<>>
    /\ sortedParts = NULL
    /\ crashed = FALSE

HashNext ==
    \/ \E w \in Workers : UNCHANGED bvars /\ PartLock(w)
    \/ \E w \in Workers : UNCHANGED bvars /\ PartAdd(w)
    \/ \E w \in Workers : UNCHANGED bvars /\ PartUnlock(w)
    \/ \E w \in Workers : UNCHANGED bvars /\ PartDone(w)

SpecHash == HashInit /\ [][HashNext]_vars

\* Every step of the two functions
MRSteps ==
    /\ ~crashed
    /\ UNCHANGED bvars
    /\ \/ Call
       \/ Spawn
       \/ SpawnDone
       \/ MainBarrier
       \/ SortStep
       \/ SortDone
       \/ Join
       \/ Return
       \/ \E w \in Workers :
             \/ WorkerEntry(w)
             \/ WorkerBarrier(w)
             \/ MapCall(w)
             \/ MapToken(w)
             \/ PartLock(w)
             \/ PartAdd(w)
             \/ PartUnlock(w)
             \/ PartDone(w)
             \/ MapDone(w)
             \/ ReduceKey(w)
             \/ OutLock(w)
             \/ OutAdd(w)
             \/ OutUnlock(w)
             \/ ReduceNext(w)
             \/ ReduceDone(w)

\* The steps that are taken when a job is run.  The other steps of MRSteps
\* are those behind the first barrier, which no thread passes (MRDeadSteps).
MRCall == ~crashed /\ UNCHANGED bvars /\ Call

MRSpawn == ~crashed /\ UNCHANGED bvars /\ Spawn

MRSpawnDone == ~crashed /\ UNCHANGED bvars /\ SpawnDone

MRMainBarrier == ~crashed /\ UNCHANGED bvars /\ MainBarrier

MRWorkerEntry(w) == ~crashed /\ UNCHANGED bvars /\ WorkerEntry(w)

MRWorkerBarrier(w) == ~crashed /\ UNCHANGED bvars /\ WorkerBarrier(w)

MRNext ==
    \/ MRCall
    \/ MRSpawn
    \/ MRSpawnDone
    \/ MRMainBarrier
    \/ \E w \in Workers : MRWorkerEntry(w)
    \/ \E w \in Workers : MRWorkerBarrier(w)

SpecMR == MRInit /\ [][MRNext]_vars

\* In no state of SpecMR is a step of the program enabled that MRNext leaves out
MRDeadSteps == ~ENABLED (MRSteps /\ ~MRNext)

---------------------------------------------------------------------------
(* What the properties below speak about *)

\* Every node reachable from `node`, with its depth below the root
RECURSIVE NodesAt(_, _)
NodesAt(node, d) ==
    {[node |-> node, depth |-> d]} \cup
    (IF node.is_leaf THEN {}
     ELSE UNION {NodesAt(node.children[i], d + 1) : i \in 1..Len(node.children)})

AllNodes == IF root = NULL THEN {} ELSE NodesAt(root, 0)

NonRootNodes == {x \in AllNodes : x.depth > 0}

LeafDepths == {x.depth : x \in {y \in AllNodes : y.node.is_leaf}}

\* The stored keys, and the stored payload handles, in traversal order
StoredKeys(r) == LET t == btree_traverse(r) IN [i \in 1..Len(t) |-> t[i].key]

StoredData(r) == LET t == btree_traverse(r) IN [i \in 1..Len(t) |-> t[i].data]

Stored(r, key) == \E i \in 1..Len(StoredKeys(r)) : StoredKeys(r)[i] = key

NoRepeat(seq) == \A i, j \in 1..Len(seq) : seq[i] = seq[j] => i = j

StrictlyIncreasing(keys) ==
    \A i \in 1..(Len(keys) - 1) : keys[i].key < keys[i + 1].key

---------------------------------------------------------------------------
(* Properties of the B-tree *)

\* C1: under a caller that never inserts a key while it is stored, every key
\* that was inserted and not deleted since is found by btree_search, with the
\* payload of its latest insert.
C1_InsertedKeysAreFound ==
    (caller = "nodup" /\ ~destroyed) =>
        \A k \in DOMAIN expected :
            expected[k] # NULL => btree_search(root, k) = [data |-> expected[k]]

\* C2: scenario B1: after inserting 10, 20, 5, 6, 12, 30, 7, 17 into an empty
\* tree the traversal is 5, 6, 7, 10, 12, 17, 20, 30, the tree has two levels
\* and the root holds the single key 10.
C2_ScenarioB1 ==
    (script = <<>> /\ \A i \in 1..Len(B1Keys) : net[B1Keys[i]] = 1) =>
        /\ StoredKeys(root) = <<5, 6, 7, 10, 12, 17, 20, 30>>
        /\ LeafDepths = {1}
        /\ StoredKeys([root EXCEPT !.children = <<>>, !.is_leaf = TRUE]) = <<10>>

\* C3: after every operation each node other than the root holds at least
\* min_degree - 1 and at most ORDER - 1 keys.
C3_NonRootOccupancy ==
    \A x \in NonRootNodes :
        /\ num_keys(x.node) >= min_degree - 1
        /\ num_keys(x.node) <= ORDER - 1

\* C4: after every operation, also an insert of a stored key, the keys of
\* every node are strictly increasing and no key is held by two slots.
C4_KeysStrictAndUnique ==
    /\ \A x \in AllNodes : StrictlyIncreasing(x.node.keys)
    /\ NoRepeat(StoredKeys(root))

\* C5: after every operation all leaves are at the same depth.
C5_LeavesAtSameDepth == Cardinality(LeafDepths) <= 1

C5_Witness ==
    /\ LeafDepths = {2}
    /\ last.op = "delete"
    /\ last.rebalanced

\* C6: btree_delete(k) returns true exactly when k was stored before the
\* call, and a delete that returns false leaves the traversal of (key,
\* payload) pairs as it was, whether or not a borrow or merge ran.
C6_DeleteReportsAndPreserves ==
    [][last'.op = "delete" =>
            /\ last'.ret = Stored(root, last'.key)
            /\ ~last'.ret => btree_traverse(root') = btree_traverse(root)]_vars

C6_Witness ==
    /\ last.op = "delete"
    /\ ~last.ret
    /\ last.rebalanced

\* C7: under a caller whose every delete of a key follows a matching insert,
\* a key inserted as often as it was deleted is not found by btree_search.
C7_BalancedKeysAreAbsent ==
    (caller = "matched" /\ ~destroyed) =>
        \A k \in DOMAIN net : net[k] = 0 => btree_search(root, k) = NULL

C7_Witness ==
    /\ caller = "matched"
    /\ script = <<>>
    /\ LeafDepths = {2}
    /\ fuel = 0
    /\ \E k \in DOMAIN net : net[k] = 0

\* C8: every payload that was allocated and not released is held by exactly
\* one slot of the tree, no payload is released twice, and btree_destroy
\* leaves no payload allocated.
C8_PayloadOwnedOnce ==
    LET held == SelectSeq(StoredData(root), LAMBDA h : h # NULL) IN
    /\ ~badFree
    /\ NoRepeat(held)
    /\ live = {held[i] : i \in 1..Len(held)}

\* C9: the tree is empty on creation, and after every operation the root is
\* absent or holds between 1 and ORDER - 1 keys.
C9_RootOccupancy ==
    /\ last.op = "create" => root = NULL
    /\ root = NULL \/ (num_keys(root) >= 1 /\ num_keys(root) <= ORDER - 1)

\* a delete emptied the root: the tree shrank by a level, or became empty
C9_Witness ==
    /\ last.op = "delete"
    /\ last.ret
    /\ \/ root = NULL /\ ~destroyed
       \/ last.rebalanced /\ root # NULL /\ root.is_leaf

---------------------------------------------------------------------------
(* Properties of the MapReduce engine *)

\* The map function applied to the items of the input, one after the other
RECURSIVE MapAll(_)
MapAll(items) ==
    IF items = <<>> THEN <<>>
    ELSE map_function(Head(items).key, Head(items).value) \o MapAll(Tail(items))

\* The values emitted for key k, as the list a reduce function is given
ValuesOf(pairs, k) ==
    LET mine == SelectSeq(pairs, LAMBDA kv : kv.key = k)
    IN  [i \in 1..Len(mine) |-> [key |-> <<>>, value |-> mine[i].value]]

RECURSIVE ReduceAll(_, _)
ReduceAll(pairs, ks) ==
    IF ks = {} THEN EmptyBag
    ELSE LET k == CHOOSE x \in ks : TRUE
         IN  SeqBag(reduce_function(k, ValuesOf(pairs, k)))
                 (+) ReduceAll(pairs, ks \ {k})

\* A sequential map, group by key, reduce of the input: the bag of its pairs
SequentialResult(items) ==
    LET pairs == MapAll(items)
    IN  ReduceAll(pairs, {pairs[i].key : i \in 1..Len(pairs)})

\* run_mapreduce returned -1: the input was empty or a worker was not created
JobRefused == cpc = "returned" /\ ret = 0 - 1

JobCompleted == cpc = "returned" /\ ret = 0

\* No thread of the job has a step left to take
JobAtRest == cpc # "none" /\ ~ENABLED MRSteps

\* C10: for each non-empty input, each worker count and each interleaving, a
\* job that run_mapreduce does not refuse is completed, and the bag of the
\* pairs of its output list is that of a sequential map, group by key, reduce.
C10_OutputIsSequentialResult ==
    (JobAtRest /\ Len(input) > 0 /\ ~JobRefused) =>
        /\ JobCompleted
        /\ SeqBag(output) = SequentialResult(input)

\* C16: run_mapreduce on a context whose input list is empty returns -1; no
\* worker thread is created, no thread arrives at the barrier, and the output
\* list and all partitions stay empty.
C16_EmptyInputIsRefused ==
    (cpc \in {"call", "spawn", "b1", "b2", "sort", "b3", "b4", "join", "returned"}
        /\ Len(input) = 0) =>
        /\ cpc \in {"call", "returned"}
        /\ cpc = "returned" => ret = 0 - 1
        /\ \A w \in Workers : wpc[w] = "unborn"
        /\ \A p \in DOMAIN arrivals : arrivals[p] = 0
        /\ waiting = {}
        /\ output = <<>>
        /\ \A p \in DOMAIN partitions : partitions[p] = <<>>

C16_Witness == cpc = "returned" /\ ret = 0 - 1 /\ Len(input) = 0 /\ num_threads > 1

\* The split of the full child at `index` of a parent keeps the first
\* min_degree - 1 keys in the child, moves the key at index min_degree - 1 to
\* the parent, gives the keys from index min_degree on to the new sibling and
\* divides the children at index min_degree; no key and no subtree is lost.
SplitLosesNothing(parent, index) ==
    LET child    == Ch(parent, index)
        after    == btree_split_child(parent, index)
        left     == Ch(after, index)
        right    == Ch(after, index + 1)
        promoted == K(after, index)
    IN  /\ left.keys = SubSeq(child.keys, 1, min_degree - 1)
        /\ promoted = K(child, min_degree - 1)
        /\ right.keys = SubSeq(child.keys, min_degree + 1, ORDER - 1)
        /\ ~child.is_leaf =>
              /\ left.children = SubSeq(child.children, 1, min_degree)
              /\ right.children = SubSeq(child.children, min_degree + 1, ORDER)
        /\ SeqBag(left.keys) (+) SetToBag({promoted}) (+) SeqBag(right.keys)
              = SeqBag(child.keys)
        /\ {left.children[j] : j \in 1..Len(left.children)}
              \cup {right.children[j] : j \in 1..Len(right.children)}
              = {child.children[j] : j \in 1..Len(child.children)}

\* C20: splitting a full node loses nothing, be it the full root that
\* btree_insert splits under a new root or a full child that
\* btree_insert_non_full splits on its way down: the left half keeps the keys
\* [0, min_degree - 1), the key at index min_degree - 1 goes to the parent, the
\* right half keeps the keys [min_degree, ORDER - 1), the children are divided
\* at index min_degree, and the keys and subtrees of left + promoted + right
\* are those of the node before the split.
C20_SplitLosesNothing ==
    /\ (root # NULL /\ num_keys(root) = ORDER - 1) =>
          SplitLosesNothing([btree_create_node(FALSE) EXCEPT
                                !.children = <<root>>, !.spare = Taken(@, 1)], 0)
    /\ \A x \in AllNodes :
          (~x.node.is_leaf /\ num_keys(x.node) < ORDER - 1) =>
              \A i \in 0..num_keys(x.node) :
                  num_keys(Ch(x.node, i)) = ORDER - 1 => SplitLosesNothing(x.node, i)

\* C17: a request for a number of threads outside 1..MAX_THREADS is not
\* accepted: whenever init_mapreduce has returned to its caller, so that the
\* engine is configured and run_mapreduce is what the caller does next, the
\* request was in 1..MAX_THREADS and the number of threads is the request.
C17_InvalidConfigurationIsRefused ==
    cpc = "call" => (req \in 1..MAX_THREADS /\ num_threads = req)

\* C15: for every number of workers and every non-empty input run_mapreduce
\* returns: the job comes to rest only with the coordinator returned; and if
\* the workers were all created, it returned success, each of the
\* num_threads + 1 threads arrived at the barrier four times, every worker has
\* returned, and no thread is left blocked at the barrier or holding a lock.
C15_JobReturns ==
    (JobAtRest /\ Len(input) > 0) =>
        /\ cpc = "returned"
        /\ ~JobRefused =>
              /\ ret = 0
              /\ \A p \in DOMAIN arrivals : arrivals[p] = 4
              /\ \A w \in Workers : wpc[w] = "exited"
              /\ waiting = {}
              /\ \A p \in DOMAIN mutex : mutex[p] = Free
              /\ output_mutex = Free

\* The values of the pairs of key k in a bag of pairs, as the bag of the
\* entries of a values list
ValuesIn(pairs, k) ==
    LET mine == {kv \in BagToSet(pairs) : kv.key = k}
    IN  [x \in {[key |-> <<>>, value |-> kv.value] : kv \in mine} |->
            CopiesIn([key |-> k, value |-> x.value], pairs)]

\* The input as main() loaded it
LoadedInput == load_data_from_file(<<>>, file)

RECURSIVE PartitionBag(_)
PartitionBag(p) ==
    IF p = PARTITIONS THEN EmptyBag ELSE SeqBag(partitions[p]) (+) PartitionBag(p + 1)

\* Every pair of a partition is in the partition of its key
WellPartitioned ==
    \A p \in DOMAIN partitions : \A i \in 1..Len(partitions[p]) :
        UMod(hash_string(partitions[p][i].key), PARTITIONS) = p

\* The job was not refused, and no thread of it has a step left to take
AcceptedJobAtRest == JobAtRest /\ Len(input) > 0 /\ ~JobRefused

RECURSIVE ReduceEmitted(_)
ReduceEmitted(calls) ==
    IF calls = <<>> THEN EmptyBag
    ELSE SeqBag(reduce_function(Head(calls).key, Head(calls).values))
             (+) ReduceEmitted(Tail(calls))

Pending(w) ==
    LET from == IF wpc[w] \in {"tok1", "tokn"} THEN 1
                ELSE IF wpc[w] \in {"part", "locked"} THEN wj[w] + 1
                ELSE IF wpc[w] = "unlock" THEN wj[w] + 2
                ELSE Len(wout[w]) + 1
    IN  SubSeq(wout[w], from, Len(wout[w]))

RECURSIVE PendingBag(_)
PendingBag(ws) ==
    IF ws = {} THEN EmptyBag
    ELSE LET w == CHOOSE x \in ws : TRUE
         IN  SeqBag(Pending(w)) (+) PendingBag(ws \ {w})

C19_LinesTokenisedIndependently ==
    /\ input = LoadedInput
    /\ \A w \in Workers :
          wpc[w] \in {"part", "locked", "unlock"} =>
              wout[w] = map_function(LoadedInput[wi[w] + 1].key,
                                     LoadedInput[wi[w] + 1].value)

---------------------------------------------------------------------------
(* C21: deleting a key found in an internal node puts the predecessor's   *)
(* (successor's) key in its slot together with the payload stored for     *)
(* that key, and every key that remains keeps its own non-null payload,   *)
(* whatever the height of the tree.  The "nodup" caller records in        *)
(* expected the payload it handed over with each key it has not deleted.  *)

\* Every stored slot holds the payload that was inserted with its key
OwnPayloads(r) ==
    LET t == btree_traverse(r)
    IN  \A i \in 1..Len(t) :
            /\ t[i].data # NULL
            /\ t[i].data = expected[t[i].key]

C21_SlotsKeepOwnPayload == caller = "nodup" => OwnPayloads(root)

---------------------------------------------------------------------------
(* C22: whenever btree_delete recurses from an internal node into a       *)
(* child, that child holds at least t = ceil(M/2) keys at the moment of   *)
(* the recursive call, after any borrow or merge of the fill step.  The   *)
(* property is stated of every delete the caller can issue in a state.    *)

\* The nodes that the calls of fn in a trace ran on
NodesOf(trace, fn) ==
    {trace[i].node : i \in {j \in 1..Len(trace) : trace[j].call = fn}}

\* The children btree_delete(tree, key) recurses into
DeleteDescents(key) ==
    NodesOf(btree_delete(root, key).trace, "btree_delete_from_node")

C22_DescentChildHoldsMinDegree ==
    ~destroyed =>
        \A key \in DOMAIN net :
            \A child \in DeleteDescents(key) : num_keys(child) >= min_degree

---------------------------------------------------------------------------
(* C23: btree_insert never enters btree_insert_non_full on a full node:   *)
(* every full node on the descent path, the root included, is split       *)
(* before it is descended into, so no key slot with index >= M-1 is       *)
(* written.  The property is stated of every insert the caller can issue  *)
(* in a state.                                                            *)

InsertTrace(key) == btree_insert(root, key, Malloc(live, key)).trace

C23_NonFullOnEntry ==
    ~destroyed =>
        \A key \in DOMAIN net :
            /\ \A node \in NodesOf(InsertTrace(key), "btree_insert_non_full") :
                    num_keys(node) < ORDER - 1
            /\ \A parent \in NodesOf(InsertTrace(key), "btree_split_child") :
                    num_keys(parent) <= ORDER - 1

\* An insert whose descent meets a full child below the root and splits it
C23_Witness ==
    /\ ~destroyed
    /\ \E key \in DOMAIN net :
          \E i \in 2..Len(InsertTrace(key)) :
              InsertTrace(key)[i].call = "btree_split_child"

---------------------------------------------------------------------------
(* C24: as long as the caller has inserted no key that was already        *)
(* stored, after every insert and delete every internal node satisfies    *)
(* the search-tree order: the keys in the subtree of child i are all      *)
(* strictly less than keys[i], and those in the subtree of child i+1 are  *)
(* all strictly greater.                                                  *)

SubtreeKeys(node) ==
    LET t == btree_traverse_node(node) IN {t[i].key : i \in 1..Len(t)}

SearchOrdered(node) ==
    node.is_leaf \/
        \A i \in 0..(num_keys(node) - 1) :
            /\ \A k \in SubtreeKeys(Ch(node, i)) : k < K(node, i).key
            /\ \A k \in SubtreeKeys(Ch(node, i + 1)) : k > K(node, i).key

C24_SearchTreeOrder ==
    dups = 0 => \A e \in AllNodes : SearchOrdered(e.node)

\* A delete that borrowed or merged in a tree of distinct keys of height 3
C24_Witness ==
    /\ dups = 0
    /\ last.op = "delete" /\ last.ret /\ last.rebalanced
    /\ \E e \in AllNodes : e.depth = 2

---------------------------------------------------------------------------
(* C25: every worker that run_mapreduce spawned works on the              *)
(* coordinator's own context: from its entry on, the ctx through which it *)
(* reaches the barrier, the partitions, the input and the output is the   *)
(* context that was passed to run_mapreduce; and the id it read from its  *)
(* argument is the index under which it was spawned.                      *)

C25_WorkersShareCoordinatorContext ==
    \A w \in Workers :
        wpc[w] \notin {"unborn", "entry"} =>
            /\ wctx[w] = CtxPtr
            /\ ThreadIdPtr(w).id = w

---------------------------------------------------------------------------
(* C26: for every input size N >= 1 and every number of workers W in      *)
(* 1..MAX_THREADS, also when N < W or W does not divide N, the slices     *)
(* [start_index(w), end_index(w)) of run_map_phase lie within [0, N), are *)
(* pairwise disjoint and cover [0, N): the loops of the W workers call    *)
(* map_function on each input pair exactly once between them.             *)

\* The workers whose map loop takes input item i
MappersOf(i) == {w \in Workers : start_index(w) <= i /\ i < end_index(w)}

C26_MapSlicesPartitionInput ==
    cpc = "call" =>
        /\ \A w \in Workers : end_index(w) <= Len(input)
        /\ \A i \in 0..(Len(input) - 1) : Cardinality(MappersOf(i)) = 1

\* A configured job with more items than workers, and a remainder
C26_Witness ==
    /\ cpc = "call"
    /\ num_threads > 1
    /\ Len(input) > num_threads
    /\ Len(input) % num_threads # 0

---------------------------------------------------------------------------
(* C27: for every number of workers W in 1..MAX_THREADS the slabs         *)
(* [start_partition(w), end_partition(w)) of run_reduce_phase lie within  *)
(* [0, PARTITIONS), are pairwise disjoint and cover all the partitions:   *)
(* the loops of the W workers scan each partition exactly once between    *)
(* them.                                                                  *)

\* The workers whose reduce loop scans partition p
ReducersOf(p) == {w \in Workers : start_partition(w) <= p /\ p < end_partition(w)}

C27_ReduceSlabsPartitionPartitions ==
    cpc = "call" =>
        /\ \A w \in Workers : end_partition(w) <= PARTITIONS
        /\ \A p \in 0..(PARTITIONS - 1) : Cardinality(ReducersOf(p)) = 1

\* A configured job whose number of workers does not divide PARTITIONS
C27_Witness ==
    /\ cpc = "call"
    /\ num_threads > 1
    /\ PARTITIONS % num_threads # 0

---------------------------------------------------------------------------
(* C28: the partition chosen for an emitted key is h mod P, where h is    *)
(* 5381 followed by h = (h * 33 + c) mod 2^32 for each byte c of the key  *)
(* taken as an unsigned value 0..255; the index is in [0, P), and two     *)
(* equal keys go to the same partition.                                   *)
(* Where char is signed, hash_string adds a byte above 127 as its value   *)
(* less 256; the two values of h then differ by a multiple of 256, which  *)
(* PARTITIONS divides, so the partition is the one the claim names.       *)

\* The byte that holds a char: its value as an unsigned char
ByteOf(c) == c % 256

\* h * 33 + byte modulo 2^32, on the 16-bit halves of h
Djb2Step(h, byte) ==
    LET lo == h.lo * 33 + byte
        hi == h.hi * 33 + (lo \div 65536)
    IN  [hi |-> hi % 65536, lo |-> lo % 65536]

RECURSIVE Djb2(_, _)
Djb2(key, h) ==
    IF key = <<>> THEN h ELSE Djb2(Tail(key), Djb2Step(h, ByteOf(Head(key))))

\* h mod P for the h of the claim
ClaimedPartition(key) ==
    LET h == Djb2(key, [hi |-> 0, lo |-> 5381])
    IN  ((h.hi % PARTITIONS) * (65536 % PARTITIONS) + (h.lo % PARTITIONS))
            % PARTITIONS

C28_PartitionIsDjb2ModP ==
    /\ \A w \in Workers :
          wpc[w] \in {"locked", "unlock"} =>
              /\ partition_index(w) \in 0..(PARTITIONS - 1)
              /\ partition_index(w) = ClaimedPartition(wout[w][wj[w] + 1].key)
    /\ \A p \in DOMAIN partitions : \A i \in 1..Len(partitions[p]) :
          ClaimedPartition(partitions[p][i].key) = p
    /\ \A p, q \in DOMAIN partitions :
          \A i \in 1..Len(partitions[p]), j \in 1..Len(partitions[q]) :
              partitions[p][i].key = partitions[q][j].key => p = q

\* Two pairs with the same key, which holds a byte above 127 read as a
\* negative char, have been appended
C28_Witness ==
    \E p \in DOMAIN partitions :
        /\ Len(partitions[p]) = 2
        /\ partitions[p][1].key = partitions[p][2].key
        /\ \E i \in 1..Len(partitions[p][1].key) : partitions[p][1].key[i] < 0

---------------------------------------------------------------------------
(* C29: no B-tree operation writes outside a node's fixed arrays: in      *)
(* every split, borrow and merge that an insert or a delete performs, and *)
(* in the tree they leave, each node holds at most M-1 keys (slots 0 to   *)
(* M-2) and at most M children (slots 0 to M-1); in particular the two    *)
(* siblings that btree_merge_children joins hold, with the separator, at  *)
(* most M-1 keys.  The property is stated of every insert and delete the  *)
(* caller can issue in a state.                                           *)

FitsArrays(node) ==
    /\ num_keys(node) <= ORDER - 1
    /\ Len(node.children) <= ORDER

DeleteTrace(key) == btree_delete(root, key).trace

\* The nodes that the splits, borrows and merges of a trace wrote
Written(trace) ==
    NodesOf(trace, "btree_split_child") \cup NodesOf(trace, "btree_fill_child")
        \cup NodesOf(trace, "btree_merge_children")

C29_WritesStayInArrays ==
    /\ \A e \in AllNodes : FitsArrays(e.node)
    /\ ~destroyed =>
          \A key \in DOMAIN net :
              /\ \A node \in Written(InsertTrace(key)) : FitsArrays(node)
              /\ \A node \in Written(DeleteTrace(key)) : FitsArrays(node)

\* A delete that merges two siblings below the root of a tree of height 3
C29_Witness ==
    /\ ~destroyed
    /\ \E e \in AllNodes : e.depth = 2
    /\ \E key \in DOMAIN net :
          NodesOf(DeleteTrace(key), "btree_merge_children") # {}

---------------------------------------------------------------------------
(* C30: after every btree_insert and btree_delete every node of the tree  *)
(* holds at least one key, a node other than the root at least            *)
(* floor(M/2) - 1, and the children of an internal node with n keys are   *)
(* the n + 1 non-null nodes at the indices 0..n, every other slot of its *)
(* children array being NULL; a leaf has none.                            *)

ChildrenMatchKeys(node) ==
    /\ IF node.is_leaf THEN node.children = <<>>
       ELSE /\ DOMAIN node.children = 1..(num_keys(node) + 1)
            /\ \A i \in 0..num_keys(node) : Ch(node, i) # NULL
    /\ \A i \in DOMAIN node.spare : ~node.spare[i]

C30_NodesNonEmptyAndChildrenMatch ==
    \A e \in AllNodes :
        /\ num_keys(e.node) >= 1
        /\ e.depth > 0 => num_keys(e.node) >= ORDER \div 2 - 1
        /\ ChildrenMatchKeys(e.node)

---------------------------------------------------------------------------
(* C31: the output list in the reduce phase                               *)

\* The places of ctx.output that hold the pairs of call c of reduce_function
BlockOf(c) == {n \in DOMAIN appended : appended[n].call = c}

\* The list reduce_output that call c of reduce_function filled
ReduceOutput(c) == AddAll(<<>>, reduce_function(reduced[c].key, reduced[c].values))

---------------------------------------------------------------------------
(* C32: the workers of a job that run_mapreduce refuses                   *)

\* C32: whenever run_mapreduce has returned -1, on an empty input or because
\* a worker could not be created, every worker of the job either was never
\* created or has returned: none of them is still running or blocked.
C32_NoWorkerLeftAfterError ==
    JobRefused => \A w \in Workers : wpc[w] \in {"unborn", "exited"}

=============================================================================
